---- MODULE Spec2Model ----
(***************************************************************************)
(* Model of app.py, the Streamlit book recommender: the catalog books_df,  *)
(* the conversion of Open Library docs into catalog rows, the merge        *)
(* (pd.concat + drop_duplicates on title), the scoring and ranking of      *)
(* get_book_recommendations, and the script's handlers.                    *)
(*                                                                         *)
(* A Python str is a sequence of one-character strings, so that split,     *)
(* strip, join, slicing and str.contains are computed, not assumed.        *)
(* A DataFrame is the sequence of its rows; a row is a record of columns.  *)
(* Only the columns the handlers compute with are kept (title, authors,    *)
(* categories, and score / match_score where the code adds them).          *)
(***************************************************************************)
EXTENDS Integers, Sequences, FiniteSets, TLC

VARIABLES
    pc,                  \* position of the script / of the call under study
    initial_items,       \* cached result of the seed queries (st.cache_data)
    books_df,            \* the catalog (module-level name of the script)
    unique_authors,      \* derived index, sorted
    unique_categories,   \* derived index, sorted
    new_books,           \* rows of the last API result handed to a merge
    prev_df,             \* catalog as it was when the last handler began
    selected_title,      \* argument title of get_book_recommendations
    num_recommendations, \* argument num_rec of get_book_recommendations
    temp_df,             \* the scored frame of the last recommendation call
    recommendations,     \* rows returned by the last recommendation call
    exception,           \* "none", or the name of the exception that escaped
    search_call          \* the search_books call under study: answer,
                         \* max_results, returned items; idle elsewhere

vars == <<pc, initial_items, books_df, unique_authors, unique_categories,
          new_books, prev_df, selected_title, num_recommendations, temp_df,
          recommendations, exception, search_call>>

(***************************************************************************)
(* Bounds of the model.                                                    *)
(***************************************************************************)
MaxCatalog == 4     \* rows of a catalog handed to the ranker
MaxExisting == 2    \* rows of a catalog handed to the merge
MaxIncoming == 2    \* rows of an incoming frame handed to the merge
MaxRec == 2         \* largest num_rec tried (the slider offers 1..20)
MaxInitial == 2     \* docs of the initial collection of a session
MaxDocs == 1        \* docs in one answer of the search endpoint in a session

(***************************************************************************)
(* Program constants.                                                      *)
(***************************************************************************)
MAX_API_RESULTS == 40
SEED_RESULTS == 10
CATEGORIES_SLICE == 100
AUTHOR_POINTS == 2

Min(a, b) == IF a < b THEN a ELSE b

(***************************************************************************)
(* Python string operations.                                               *)
(***************************************************************************)
Whitespace == {" "}

\* s[:n]
Take(s, n) == SubSeq(s, 1, Min(n, Len(s)))

RECURSIVE lstrip(_)
lstrip(s) ==
    IF s # <<>> /\ Head(s) \in Whitespace THEN lstrip(Tail(s)) ELSE s

RECURSIVE rstrip(_)
rstrip(s) ==
    IF s # <<>> /\ s[Len(s)] \in Whitespace
    THEN rstrip(SubSeq(s, 1, Len(s) - 1))
    ELSE s

\* str.strip()
strip(s) == rstrip(lstrip(s))

\* str.split(','): always one piece more than there are commas
RECURSIVE split(_)
split(s) ==
    IF \A i \in 1..Len(s) : s[i] # ","
    THEN <<s>>
    ELSE LET k == CHOOSE i \in 1..Len(s) :
                      s[i] = "," /\ \A j \in 1..(i - 1) : s[j] # ","
         IN  <<SubSeq(s, 1, k - 1)>> \o split(SubSeq(s, k + 1, Len(s)))

\* ', '.join(parts)
RECURSIVE join(_)
join(parts) ==
    IF parts = <<>> THEN <<>>
    ELSE IF Len(parts) = 1 THEN parts[1]
    ELSE parts[1] \o <<",", " ">> \o join(Tail(parts))

\* the characters of the model in code point order (ord)
Alphabet == <<" ", ",", ".",
              "A", "D", "F", "G", "H", "K", "M", "T", "U",
              "a", "c", "d", "e", "f", "g", "h", "i", "k", "l", "m", "n", "o",
              "r", "s", "t", "u", "w", "z">>

ord(c) == CHOOSE i \in 1..Len(Alphabet) : Alphabet[i] = c

\* a < b on str
RECURSIVE str_less(_, _)
str_less(a, b) ==
    IF b = <<>> THEN FALSE
    ELSE IF a = <<>> THEN TRUE
    ELSE IF Head(a) = Head(b) THEN str_less(Tail(a), Tail(b))
    ELSE ord(Head(a)) < ord(Head(b))

\* sorted(values) of a collection of distinct str
RECURSIVE sorted(_)
sorted(values) ==
    IF values = {} THEN <<>>
    ELSE LET least == CHOOSE v \in values :
                          \A w \in values : w = v \/ str_less(v, w)
         IN  <<least>> \o sorted(values \ {least})

UpperCase == <<"A", "D", "F", "G", "H", "K", "M", "T", "U">>
LowerCase == <<"a", "d", "f", "g", "h", "k", "m", "t", "u">>

lower_char(c) ==
    IF \E i \in 1..Len(UpperCase) : UpperCase[i] = c
    THEN LowerCase[CHOOSE i \in 1..Len(UpperCase) : UpperCase[i] = c]
    ELSE c

\* str.lower()
lower(s) == [i \in 1..Len(s) |-> lower_char(s[i])]

\* str.split(): the maximal runs of non-whitespace characters
RECURSIVE split_whitespace(_)
split_whitespace(s) ==
    LET t == lstrip(s)
    IN  IF t = <<>> THEN <<>>
        ELSE IF \A i \in 1..Len(t) : t[i] \notin Whitespace THEN <<t>>
        ELSE LET k == CHOOSE i \in 1..Len(t) :
                          t[i] \in Whitespace
                          /\ \A j \in 1..(i - 1) : t[j] \notin Whitespace
             IN  <<SubSeq(t, 1, k - 1)>>
                     \o split_whitespace(SubSeq(t, k + 1, Len(t)))

\* part in text
is_substring(part, text) ==
    \E i \in 1..(Len(text) - Len(part) + 1) :
        SubSeq(text, i, i + Len(part) - 1) = part

\* Series.str.contains(pat) searches the regular expression pat (regex=True
\* is the default).  Of the metacharacters only "." is in the alphabet of the
\* model; every other character of a pattern stands for itself.
contains_at(pat, text, i) ==
    \A j \in 1..Len(pat) : pat[j] = "." \/ pat[j] = text[i + j - 1]

str_contains(pat, text) ==
    \E i \in 1..(Len(text) - Len(pat) + 1) : contains_at(pat, text, i)

\* Series.str.contains(pat, case=False)
str_contains_nocase(pat, text) == str_contains(lower(pat), lower(text))

(***************************************************************************)
(* Open Library docs and their conversion into catalog rows.               *)
(***************************************************************************)
UnknownTitle == <<"U","n","k","n","o","w","n"," ","T","i","t","l","e">>
UnknownAuthor == <<"U","n","k","n","o","w","n"," ","A","u","t","h","o","r">>
Uncategorized == <<"U","n","c","a","t","e","g","o","r","i","z","e","d">>

\* item.get(key, default)
item_get(item, key, default) ==
    IF key \in item.present THEN item[key] ELSE default

Doc(keys, t, a, s) ==
    [present |-> keys, title |-> t, author_name |-> a, subject |-> s]

AllKeys == {"title", "author_name", "subject"}

\* The docs the search endpoint answers with.
Docs == {
    Doc(AllKeys, <<"D">>, << <<"H">> >>, << <<"s","f">>, <<"a","d">> >>),
    Doc(AllKeys, <<"M">>, << <<"H">> >>, << <<"s","f">> >>),
    Doc(AllKeys, <<"F">>, << <<"K">> >>, << <<"f">>, <<"f">> >>),
    Doc({"title"}, <<"D">>, <<>>, <<>>),
    Doc({"author_name", "subject"}, <<>>, << <<"K">> >>, <<>>),
    Doc(AllKeys, <<"G">>, << <<"K">> >>, << <<".","f">> >>) }

create_book(item) ==
    [title      |-> item_get(item, "title", UnknownTitle),
     authors    |-> join(item_get(item, "author_name", <<UnknownAuthor>>)),
     categories |-> Take(join(item_get(item, "subject", <<Uncategorized>>)),
                         CATEGORIES_SLICE)]

create_books_dataframe(items) ==
    [i \in 1..Len(items) |-> create_book(items[i])]

Books == {create_book(d) : d \in Docs}

Titles == {b.title : b \in Books}

BoundedSeq(S, n) == UNION {[1..k -> S] : k \in 0..n}

(***************************************************************************)
(* search_books.  An answer of the endpoint is a fault of the transport,   *)
(* of the HTTP status or of the JSON decoding, or a body with or without   *)
(* a docs array.  The text of the query does not constrain the answer.     *)
(***************************************************************************)
Faults == {"none", "transport", "http", "json"}

Responses ==
    [fault : {"none"}, has_docs : BOOLEAN, docs : BoundedSeq(Docs, MaxDocs)]
        \cup [fault : Faults \ {"none"}, has_docs : {FALSE}, docs : {<<>>}]

search_books(resp, max_results) ==
    LET all_items ==
            IF resp.fault = "none" /\ resp.has_docs /\ Len(resp.docs) > 0
            THEN resp.docs
            ELSE <<>>
    IN  Take(all_items, max_results)

\* the fault is raised again instead of being reported
reraise(fault) == fault

\* except Exception as e: st.error(f"API Error: {str(e)}").  Every exception
\* raised inside the try block is reported on the page; none is raised again.
except_Exception(fault) == "none"

\* the exception a call of search_books ends with
search_books_raises(resp) == except_Exception(resp.fault)

\* no call of search_books under study
NoSearch ==
    [called |-> FALSE,
     response |-> [fault |-> "none", has_docs |-> FALSE, docs |-> <<>>],
     max_results |-> 0, returned |-> <<>>, raised |-> "none"]

\* the call search_books(query, max_results) answered by resp
SearchCall(resp, max_results) ==
    [called |-> TRUE, response |-> resp, max_results |-> max_results,
     returned |-> search_books(resp, max_results),
     raised |-> search_books_raises(resp)]

(***************************************************************************)
(* Frames.                                                                 *)
(***************************************************************************)
Range(s) == {s[i] : i \in 1..Len(s)}

\* df[df[title_column] == title]
rows_with_title(df, title) ==
    LET Keep(r) == r.title = title IN SelectSeq(df, Keep)

\* the frame without the first row that has the title
rows_without_first(df, title) ==
    LET hit == {i \in 1..Len(df) : df[i].title = title}
        first == CHOOSE i \in hit : \A j \in hit : i <= j
    IN  IF hit = {} THEN df
        ELSE SubSeq(df, 1, first - 1) \o SubSeq(df, first + 1, Len(df))

\* df[df[title_column] != title]
rows_without_title(df, title) ==
    LET Keep(r) == r.title # title IN SelectSeq(df, Keep)

\* sorted(df[author_column].dropna().unique())
unique_authors_of(df) == sorted({df[i].authors : i \in 1..Len(df)})

\* sorted(df[category_column].str.split(',').explode().str.strip().dropna().unique())
unique_categories_of(df) ==
    sorted(UNION {{strip(piece) : piece \in Range(split(df[i].categories))} :
                     i \in 1..Len(df)})

\* df[df[author_column] == selected_author]
rows_by_author(df, selected_author) ==
    LET Keep(r) == r.authors = selected_author IN SelectSeq(df, Keep)

\* the matching rows with their titles in lower case, as they were compared
rows_matching_lowered(df, user_input) ==
    LET Keep(r) == str_contains_nocase(user_input, r.title)
        matched == SelectSeq(df, Keep)
    IN  [i \in 1..Len(matched) |->
            [matched[i] EXCEPT !.title = lower(matched[i].title)]]

\* df[df[title_column].str.contains(user_input, case=False)]
rows_matching_title(df, user_input) ==
    LET Keep(r) == str_contains_nocase(user_input, r.title)
    IN  SelectSeq(df, Keep)

\* author_parts = selected_author.lower().split()
\* new_books[new_books[author_column].str.lower().apply(
\*     lambda x: all(part in x.lower() for part in author_parts))]
rows_naming_author(df, selected_author) ==
    LET author_parts == split_whitespace(lower(selected_author))
        Keep(r) == \A k \in 1..Len(author_parts) :
                       is_substring(author_parts[k], lower(lower(r.authors)))
    IN  SelectSeq(df, Keep)

\* df['score'] = v for every row
set_score_column(df, v) ==
    [i \in 1..Len(df) |-> [score |-> v] @@ df[i]]

\* df.loc[df[category_column].str.contains(category, na=False), 'score'] += 1
add_category_point(df, category) ==
    [i \in 1..Len(df) |->
        LET row == df[i]
        IN  IF str_contains(category, row.categories)
            THEN [row EXCEPT !.score = @ + 1]
            ELSE row]

\* df.loc[df[author_column] == book_author, 'score'] += 2
add_author_points(df, book_author) ==
    [i \in 1..Len(df) |->
        LET row == df[i]
        IN  IF row.authors = book_author
            THEN [row EXCEPT !.score = @ + AUTHOR_POINTS]
            ELSE row]

\* for category in book_categories: category = category.strip(); ... += 1
RECURSIVE score_categories(_, _)
score_categories(df, book_categories) ==
    IF book_categories = <<>> THEN df
    ELSE score_categories(add_category_point(df, strip(Head(book_categories))),
                          Tail(book_categories))

\* The positions the selection of nlargest takes when n < len(df): the n
\* largest scores, largest first, equal scores in the order of the frame
\* (keep='first', a mergesort of the rows not below the n-th score).
RECURSIVE nlargest_positions(_, _, _)
nlargest_positions(df, left, n) ==
    IF n <= 0 \/ left = {} THEN <<>>
    ELSE LET best == CHOOSE i \in left : \A j \in left :
                         \/ df[i].score > df[j].score
                         \/ df[i].score = df[j].score /\ i <= j
         IN  <<best>> \o nlargest_positions(df, left \ {best}, n - 1)

\* Series.sort_values(ascending=False): the sort is numpy's quicksort, which
\* promises no order among equal scores; every arrangement of the rows with
\* no score before a larger one is a result it can give.
sort_values_descending(df) ==
    {[k \in 1..Len(df) |-> df[p[k]]] :
        p \in {q \in [1..Len(df) -> 1..Len(df)] :
                  /\ \A i, j \in 1..Len(df) : i # j => q[i] # q[j]
                  /\ \A i, j \in 1..Len(df) :
                        i < j => df[q[i]].score >= df[q[j]].score}}

\* the first n rows, unsorted
head(df, n) == {SubSeq(df, 1, Min(n, Len(df)))}

\* DataFrame.nlargest(n, 'score'), the frames it can return: with n >= len(df)
\* it is sort_values(ascending=False).head(n), else the selection above.
nlargest(df, n) ==
    IF n >= Len(df)
    THEN sort_values_descending(df)
    ELSE LET p == nlargest_positions(df, 1..Len(df), n)
         IN  {[k \in 1..Len(p) |-> df[p[k]]]}

\* recommendations['match_score'] = recommendations['score'] / max_possible_score
\* The quotient is kept as the pair of its operands.
set_match_score(df, max_possible_score) ==
    [i \in 1..Len(df) |->
        LET row == df[i]
        IN  [match_score |-> [num |-> row.score, den |-> max_possible_score]]
                @@ row]

\* pd.concat([a, b]): the rows of a, then the rows of b
concat(a, b) == a \o b

\* of the rows with one title, the last is kept
drop_duplicates_keep_last(df) ==
    LET Keep(i) == \A j \in (i + 1)..Len(df) : df[j].title # df[i].title
        kept == {i \in 1..Len(df) : Keep(i)}
        RECURSIVE Pick(_)
        Pick(i) == IF i > Len(df) THEN <<>>
                   ELSE (IF i \in kept THEN <<df[i]>> ELSE <<>>) \o Pick(i + 1)
    IN  Pick(1)

\* nothing is dropped
keep_all_rows(df) == df

\* the scan of drop_duplicates: a row is kept when its title was not seen yet
RECURSIVE drop_seen(_, _)
drop_seen(df, seen) ==
    IF df = <<>> THEN <<>>
    ELSE IF Head(df).title \in seen
         THEN drop_seen(Tail(df), seen)
         ELSE <<Head(df)>> \o drop_seen(Tail(df), seen \cup {Head(df).title})

\* df.drop_duplicates(subset=[title_column]), keep='first'
drop_duplicates(df) == drop_seen(df, {})

\* keep='last' in place of the default
merge_keep_last(existing, incoming) ==
    drop_duplicates_keep_last(concat(existing, incoming))

\* the concatenation alone
merge_without_drop(existing, incoming) == concat(existing, incoming)

\* pd.concat([books_df, new_books]).drop_duplicates(subset=[title_column])
merge(existing, incoming) == drop_duplicates(concat(existing, incoming))

(***************************************************************************)
(* get_book_recommendations, as the set of the outcomes a call can have.   *)
(* The frames live in a store of objects, so that what books_df.copy()     *)
(* returns (a new object, not the catalog's own) decides which object the  *)
(* score column is written to.                                             *)
(***************************************************************************)
copy_alias(obj) == obj

\* the denominator as the count of distinct non-empty tags, plus the author's 2
max_possible_score_of_tags(book_categories) ==
    Cardinality({strip(book_categories[i]) : i \in 1..Len(book_categories)}
                    \ {<<>>}) + 2

\* max_possible_score = len(book_categories) + 2
max_possible_score_of(book_categories) == Len(book_categories) + 2

\* DataFrame.copy(): the object the result lives in
copy_object(obj) == "temp_obj"

get_book_recommendations(df, title, num_rec) ==
    LET found == rows_with_title(df, title)
    IN  IF found = <<>>
        THEN \* .iloc[0] on an empty frame
             {[raised |-> "IndexError", books_df |-> df,
               temp_df |-> <<>>, recommendations |-> <<>>]}
        ELSE
        LET book == found[1]
            book_author == book.authors
            book_categories == split(book.categories)
            t == copy_object("books_obj")
            h0 == [books_obj |-> df, temp_obj |-> <<>>]
            h1 == [h0 EXCEPT ![t] = h0["books_obj"]]
            h2 == [h1 EXCEPT ![t] = set_score_column(h1[t], 0)]
            h3 == [h2 EXCEPT ![t] = score_categories(h2[t], book_categories)]
            h4 == [h3 EXCEPT ![t] = add_author_points(h3[t], book_author)]
            candidates == rows_without_title(h4[t], title)
            max_possible_score == max_possible_score_of(book_categories)
        IN  {[raised |-> "none", books_df |-> h4["books_obj"],
              temp_df |-> h4[t],
              recommendations |-> set_match_score(top, max_possible_score)] :
                top \in nlargest(candidates, num_rec)}

(***************************************************************************)
(* Specification of the ranker alone: any catalog, any title, any num_rec. *)
(***************************************************************************)
RankInit ==
    /\ pc = "rank"
    /\ initial_items = <<>>
    /\ search_call = NoSearch
    /\ books_df \in BoundedSeq(Books, MaxCatalog)
    /\ unique_authors = <<>>
    /\ unique_categories = <<>>
    /\ new_books = <<>>
    /\ prev_df = books_df
    /\ selected_title = <<>>
    /\ num_recommendations = 0
    /\ temp_df = <<>>
    /\ recommendations = <<>>
    /\ exception = "none"

\* recommendations = get_book_recommendations(selected_title, num_recommendations)
\* on the catalog df; an exception of the call is caught nowhere.
CallRecommendations(df, title, n, returned, raised) ==
    \E out \in get_book_recommendations(df, title, n) :
        /\ selected_title' = title
        /\ num_recommendations' = n
        /\ books_df' = out.books_df
        /\ temp_df' = out.temp_df
        /\ recommendations' = out.recommendations
        /\ exception' = out.raised
        /\ pc' = IF out.raised = "none" THEN returned ELSE raised

\* A call follows a call that returned; an exception ends the run.
RankCall ==
    /\ pc \in {"rank", "ranked"}
    /\ prev_df' = books_df
    /\ \E title \in Titles, n \in 1..MaxRec :
          CallRecommendations(books_df, title, n, "ranked", "rank_raised")
    /\ UNCHANGED <<search_call, initial_items, unique_authors,
                   unique_categories, new_books>>

SpecRank == RankInit /\ [][RankCall]_vars

(***************************************************************************)
(* Specification of the merge alone: any catalog, any incoming frame, the  *)
(* merge statement run twice with the same incoming frame.  Every merge    *)
(* site is guarded by a non-empty API result, and the script does not get  *)
(* past its load with an empty catalog, so neither frame is empty.         *)
(***************************************************************************)
MergeInit ==
    /\ pc = "merge"
    /\ initial_items = <<>>
    /\ search_call = NoSearch
    /\ books_df \in BoundedSeq(Books, MaxExisting) \ {<<>>}
    /\ unique_authors = <<>>
    /\ unique_categories = <<>>
    /\ new_books \in BoundedSeq(Books, MaxIncoming) \ {<<>>}
    /\ prev_df = books_df
    /\ selected_title = <<>>
    /\ num_recommendations = 0
    /\ temp_df = <<>>
    /\ recommendations = <<>>
    /\ exception = "none"

\* books_df = pd.concat([books_df, new_books]).drop_duplicates(subset=[title_column])
MergeCall ==
    /\ pc \in {"merge", "merged"}
    /\ books_df' = merge(books_df, new_books)
    /\ pc' = IF pc = "merge" THEN "merged" ELSE "merged_again"
    /\ UNCHANGED <<search_call, initial_items, unique_authors,
                   unique_categories, new_books,
                   prev_df, selected_title, num_recommendations, temp_df,
                   recommendations, exception>>

SpecMerge == MergeInit /\ [][MergeCall]_vars

(***************************************************************************)
(* Specification of search_books alone, at the two kinds of call site: a   *)
(* seed query of get_initial_book_collection (max_results=10), and the     *)
(* sidebar Search (max_results left at MAX_API_RESULTS).  The endpoint is  *)
(* not trusted to honour the limit parameter: besides the answers of a     *)
(* session, it may answer with one doc more than either call asks for.     *)
(***************************************************************************)
Alternate(d, e, n) == [k \in 1..n |-> IF k % 2 = 1 THEN d ELSE e]

LongAnswers ==
    {[fault |-> "none", has_docs |-> TRUE, docs |-> Alternate(d, e, n)] :
        d \in Docs, e \in Docs, n \in {SEED_RESULTS + 1, MAX_API_RESULTS + 1}}

Answers == Responses \cup LongAnswers

\* the handler does not reach the recommendation step
NoCall == UNCHANGED <<selected_title, num_recommendations, temp_df,
                      recommendations>>

\* either the script is inside get_initial_book_collection, with the items of
\* the earlier seed queries in all_books and no catalog yet, or it has loaded
\* a catalog and its two indexes.
SearchInit ==
    /\ pc \in {"seeding", "loaded"}
    /\ search_call = NoSearch
    /\ IF pc = "seeding"
       THEN /\ initial_items \in BoundedSeq(Docs, MaxInitial)
            /\ books_df = <<>>
       ELSE /\ initial_items = <<>>
            /\ books_df \in BoundedSeq(Books, MaxExisting) \ {<<>>}
    /\ unique_authors = unique_authors_of(books_df)
    /\ unique_categories = unique_categories_of(books_df)
    /\ new_books = <<>>
    /\ prev_df = books_df
    /\ selected_title = <<>>
    /\ num_recommendations = 0
    /\ temp_df = <<>>
    /\ recommendations = <<>>
    /\ exception = "none"

\* an exception out of search_books is caught by no caller: the run ends
SearchRaised(call) ==
    /\ pc' = "crashed"
    /\ exception' = call.raised
    /\ UNCHANGED <<initial_items, books_df, unique_authors, unique_categories,
                   new_books>>

\* items = search_books(query, max_results=10); all_books.extend(items)
SearchSeed ==
    /\ pc = "seeding"
    /\ prev_df' = books_df
    /\ \E resp \in Answers :
          LET call == SearchCall(resp, SEED_RESULTS)
          IN  /\ search_call' = call
              /\ IF call.raised # "none"
                 THEN SearchRaised(call)
                 ELSE /\ initial_items' = initial_items \o call.returned
                      /\ pc' = "seeded"
                      /\ UNCHANGED <<books_df, unique_authors,
                                     unique_categories, new_books, exception>>
    /\ NoCall

\* search_results = search_books(search_query); if search_results: the
\* catalog is replaced and the indexes recomputed, else a warning is shown.
SearchSidebar ==
    /\ pc = "loaded"
    /\ prev_df' = books_df
    /\ \E resp \in Answers :
          LET call == SearchCall(resp, MAX_API_RESULTS)
              search_results == call.returned
          IN  /\ search_call' = call
              /\ IF call.raised # "none"
                 THEN SearchRaised(call)
                 ELSE /\ pc' = "searched"
                      /\ IF search_results # <<>>
                         THEN /\ books_df' =
                                     create_books_dataframe(search_results)
                              /\ new_books' = books_df'
                              /\ unique_authors' =
                                     unique_authors_of(books_df')
                              /\ unique_categories' =
                                     unique_categories_of(books_df')
                         ELSE UNCHANGED <<books_df, new_books, unique_authors,
                                          unique_categories>>
                      /\ UNCHANGED <<initial_items, exception>>
    /\ NoCall

SearchNext == SearchSeed \/ SearchSidebar

SpecSearch == SearchInit /\ [][SearchNext]_vars

(***************************************************************************)
(* The session.  Streamlit runs the script from its first line on every    *)
(* interaction: the script loads the catalog, handles the sidebar Search,  *)
(* then runs the branch of the chosen filter method, and ends.             *)
(***************************************************************************)
UserInputs == {<<>>, <<"d">>, <<"g">>, <<"z">>}

Init ==
    /\ pc = "start"
    /\ initial_items \in BoundedSeq(Docs, MaxInitial)
    /\ search_call = NoSearch
    /\ books_df = <<>>
    /\ unique_authors = <<>>
    /\ unique_categories = <<>>
    /\ new_books = <<>>
    /\ prev_df = <<>>
    /\ selected_title = <<>>
    /\ num_recommendations = 0
    /\ temp_df = <<>>
    /\ recommendations = <<>>
    /\ exception = "none"

\* books_df = get_initial_book_collection() and the two indexes.  A frame
\* made of no rows has no columns: books_df[author_column] raises KeyError.
LoadInitial ==
    /\ pc = "start"
    /\ prev_df' = books_df
    /\ books_df' = create_books_dataframe(initial_items)
    /\ IF books_df' = <<>>
       THEN /\ pc' = "crashed"
            /\ exception' = "KeyError"
            /\ UNCHANGED <<unique_authors, unique_categories>>
       ELSE /\ pc' = "loaded"
            /\ exception' = "none"
            /\ unique_authors' = unique_authors_of(books_df')
            /\ unique_categories' = unique_categories_of(books_df')
    /\ NoCall
    /\ UNCHANGED <<search_call, initial_items, new_books>>

\* if st.sidebar.button("Search"): if search_query: ...
SidebarSearch ==
    /\ pc = "loaded"
    /\ prev_df' = books_df
    /\ \E resp \in Responses :
          LET search_results == search_books(resp, MAX_API_RESULTS)
          IN  IF search_results # <<>>
              THEN /\ books_df' = create_books_dataframe(search_results)
                   /\ new_books' = books_df'
                   /\ unique_authors' = unique_authors_of(books_df')
                   /\ unique_categories' = unique_categories_of(books_df')
              ELSE UNCHANGED <<books_df, new_books, unique_authors,
                               unique_categories>>
    /\ pc' = "searched"
    /\ NoCall
    /\ UNCHANGED <<search_call, initial_items, exception>>

\* the Search button is not pressed, or the query is empty
SidebarIdle ==
    /\ pc = "loaded"
    /\ pc' = "searched"
    /\ prev_df' = books_df
    /\ NoCall
    /\ UNCHANGED <<search_call, initial_items, books_df, unique_authors,
                   unique_categories,
                   new_books, exception>>

\* filter_method is None: the landing page
FilterNone ==
    /\ pc = "searched"
    /\ pc' = "done"
    /\ prev_df' = books_df
    /\ NoCall
    /\ UNCHANGED <<search_call, initial_items, books_df, unique_authors,
                   unique_categories,
                   new_books, exception>>

\* the merge of a site with the indexes computed after it
MergeAndIndex(incoming) ==
    /\ books_df' = merge(books_df, incoming)
    /\ new_books' = incoming
    /\ unique_authors' = unique_authors_of(books_df')
    /\ unique_categories' = unique_categories_of(books_df')

\* elif filter_method == "By Author": the selectbox offers unique_authors,
\* which is not empty once the load has passed.
ByAuthor ==
    /\ pc = "searched"
    /\ prev_df' = books_df
    /\ \E selected_author \in Range(unique_authors) :
          LET filtered_books == rows_by_author(books_df, selected_author)
          IN  IF filtered_books # <<>>
              THEN UNCHANGED <<books_df, new_books, unique_authors,
                               unique_categories>>
              ELSE \E pressed \in BOOLEAN, resp \in Responses :
                      LET search_results ==
                              search_books(resp, MAX_API_RESULTS)
                          filtered_new_books ==
                              rows_naming_author(
                                  create_books_dataframe(search_results),
                                  selected_author)
                      IN  IF pressed /\ search_results # <<>>
                                     /\ filtered_new_books # <<>>
                          THEN MergeAndIndex(filtered_new_books)
                          ELSE UNCHANGED <<books_df, new_books, unique_authors,
                                           unique_categories>>
    /\ pc' = "done"
    /\ NoCall
    /\ UNCHANGED <<search_call, initial_items, exception>>

\* st.stop() before the recommendation step
Stop(df) ==
    /\ pc' = "stopped"
    /\ books_df' = df
    /\ NoCall
    /\ UNCHANGED exception

\* "Get Recommendations", "By Title": the title typed, the automatic search
\* and merge when no title of the catalog matches, the title picked among
\* the matches, the slider, the call.
RecommendByTitle ==
    /\ pc = "searched"
    /\ prev_df' = books_df
    /\ \E user_input \in UserInputs :
          IF user_input = <<>>
          THEN /\ Stop(books_df)
               /\ UNCHANGED <<new_books, unique_authors, unique_categories>>
          ELSE
          LET matched_titles == rows_matching_title(books_df, user_input)
          IN  IF matched_titles # <<>>
              THEN /\ \E k \in 1..Len(matched_titles), n \in 1..MaxRec :
                        CallRecommendations(books_df, matched_titles[k].title,
                                            n, "done", "crashed")
                   /\ UNCHANGED <<new_books, unique_authors,
                                  unique_categories>>
              ELSE \E resp \in Responses :
                      LET search_results ==
                              search_books(resp, MAX_API_RESULTS)
                          incoming == create_books_dataframe(search_results)
                          merged == merge(books_df, incoming)
                          rematched == rows_matching_title(merged, user_input)
                      IN  IF search_results = <<>>
                          THEN /\ Stop(books_df)
                               /\ UNCHANGED <<new_books, unique_authors,
                                              unique_categories>>
                          ELSE /\ new_books' = incoming
                               /\ unique_authors' = unique_authors_of(merged)
                               /\ unique_categories' =
                                      unique_categories_of(merged)
                               /\ IF rematched = <<>>
                                  THEN Stop(merged)
                                  ELSE \E k \in 1..Len(rematched),
                                          n \in 1..MaxRec :
                                          CallRecommendations(
                                              merged, rematched[k].title, n,
                                              "done", "crashed")
    /\ UNCHANGED <<search_call, initial_items>>

\* "Get Recommendations", "By Author then Title": the author picked among
\* unique_authors, the automatic search and merge when the author has no
\* book, the title picked among the author's, the slider, the call.
RecommendByAuthorTitle ==
    /\ pc = "searched"
    /\ prev_df' = books_df
    /\ \E selected_author \in Range(unique_authors) :
          LET author_books == rows_by_author(books_df, selected_author)
          IN  IF author_books # <<>>
              THEN /\ \E k \in 1..Len(author_books), n \in 1..MaxRec :
                        CallRecommendations(books_df, author_books[k].title,
                                            n, "done", "crashed")
                   /\ UNCHANGED <<new_books, unique_authors,
                                  unique_categories>>
              ELSE \E resp \in Responses :
                      LET search_results ==
                              search_books(resp, MAX_API_RESULTS)
                          filtered_new_books ==
                              rows_naming_author(
                                  create_books_dataframe(search_results),
                                  selected_author)
                          merged == merge(books_df, filtered_new_books)
                          found == rows_by_author(merged, selected_author)
                      IN  IF search_results = <<>> \/ filtered_new_books = <<>>
                          THEN /\ Stop(books_df)
                               /\ UNCHANGED <<new_books, unique_authors,
                                              unique_categories>>
                          ELSE /\ new_books' = filtered_new_books
                               /\ unique_authors' = unique_authors_of(merged)
                               /\ unique_categories' =
                                      unique_categories_of(merged)
                               /\ IF found = <<>>
                                  THEN Stop(merged)
                                  ELSE \E k \in 1..Len(found),
                                          n \in 1..MaxRec :
                                          CallRecommendations(
                                              merged, found[k].title, n,
                                              "done", "crashed")
    /\ UNCHANGED <<search_call, initial_items>>

\* the next interaction: the script starts over; the names of the last run
\* are gone, the cached initial collection is not.
Rerun ==
    /\ pc \in {"done", "stopped", "crashed"}
    /\ pc' = "start"
    /\ books_df' = <<>>
    /\ unique_authors' = <<>>
    /\ unique_categories' = <<>>
    /\ new_books' = <<>>
    /\ prev_df' = <<>>
    /\ selected_title' = <<>>
    /\ num_recommendations' = 0
    /\ temp_df' = <<>>
    /\ recommendations' = <<>>
    /\ exception' = "none"
    /\ UNCHANGED <<search_call, initial_items>>

Next ==
    \/ LoadInitial
    \/ SidebarSearch
    \/ SidebarIdle
    \/ FilterNone
    \/ ByAuthor
    \/ RecommendByTitle
    \/ RecommendByAuthorTitle
    \/ Rerun

Spec == Init /\ [][Next]_vars

(***************************************************************************)
(* Claims about the ranker, checked under SpecRank.                        *)
(***************************************************************************)
Returned == pc = "ranked"

\* the reference book of the last call: books_df[books_df.title == title].iloc[0]
Reference == rows_with_title(prev_df, selected_title)[1]

\* the tags of a categories string: split on comma, trimmed, empty ones dropped
tokenize(categories) ==
    {strip(p) : p \in Range(split(categories))} \ {<<>>}

author_bonus(r, c) == IF c.authors = r.authors THEN 2 ELSE 0

tag_score(r, c) ==
    Cardinality({t \in tokenize(r.categories) : is_substring(t, c.categories)})
        + author_bonus(r, c)

IsCandidate(row) == row.title # selected_title

\* C1: the score of every candidate c is the number of distinct non-empty tags
\* of the reference's categories that are substrings of c.categories, plus 2
\* when c.authors equals the reference's authors.
C1_ScoreCountsDistinctTags ==
    Returned =>
        \A i \in 1..Len(temp_df) :
            IsCandidate(temp_df[i]) =>
                temp_df[i].score = tag_score(Reference, temp_df[i])

\* C2: the score of every candidate lies between 0 and the number of distinct
\* non-empty tags of the reference's categories plus 2.
C2_ScoreWithinTagBound ==
    Returned =>
        \A i \in 1..Len(temp_df) :
            IsCandidate(temp_df[i]) =>
                /\ 0 <= temp_df[i].score
                /\ temp_df[i].score
                       <= Cardinality(tokenize(Reference.categories)) + 2

\* C3: no returned recommendation has the reference title, also when several
\* rows of the catalog carry that title.
C3_ReferenceTitleExcluded ==
    Returned =>
        \A k \in 1..Len(recommendations) :
            recommendations[k].title # selected_title

C3_Witness ==
    /\ Returned
    /\ Len(rows_with_title(prev_df, selected_title)) >= 2
    /\ recommendations # <<>>

Candidates == rows_without_title(temp_df, selected_title)

\* the order of positions 1..m by descending score, equal scores by position
StableDescending(c) ==
    CHOOSE p \in [1..Len(c) -> 1..Len(c)] :
        /\ \A i, j \in 1..Len(c) : i # j => p[i] # p[j]
        /\ \A i, j \in 1..Len(c) : i < j =>
              \/ c[p[i]].score > c[p[j]].score
              \/ c[p[i]].score = c[p[j]].score /\ p[i] < p[j]

SameBook(rec, row) ==
    /\ rec.title = row.title
    /\ rec.authors = row.authors
    /\ rec.categories = row.categories
    /\ rec.score = row.score

C5_MatchRatioInUnitInterval ==
    Returned =>
        \A k \in 1..Len(recommendations) :
            LET q == recommendations[k].match_score
            IN  /\ q.den # 0
                /\ q.num = recommendations[k].score
                /\ 0 <= q.num
                /\ q.num <= q.den

C5_Witness ==
    /\ Returned
    /\ Reference.categories = <<>>
    /\ \E k \in 1..Len(recommendations) :
          recommendations[k].match_score.num = recommendations[k].match_score.den

CatalogColumns == {"title", "authors", "categories"}

\* C9: a recommendation call leaves the catalog as it was: same rows, same
\* order, same columns (no score, no match_score), whatever was asked before.
C9_CatalogUntouched ==
    pc \in {"ranked", "rank_raised"} =>
        /\ books_df = prev_df
        /\ \A i \in 1..Len(books_df) : DOMAIN books_df[i] = CatalogColumns

C9_Witness ==
    /\ Returned
    /\ recommendations # <<>>
    /\ \E i \in 1..Len(temp_df) : temp_df[i].score > 0
    /\ books_df # <<>>

TitleMissing == rows_with_title(prev_df, selected_title) = <<>>

\* C10: a call with a title no row of the catalog has ends in the NotFound
\* outcome, returns no recommendations and leaves the catalog as it was.
C10_MissingTitleIsNotFound ==
    (pc \in {"ranked", "rank_raised"} /\ TitleMissing) =>
        /\ exception = "NotFound"
        /\ recommendations = <<>>
        /\ books_df = prev_df

(***************************************************************************)
(* Claims about the merge, checked under SpecMerge.  prev_df is the        *)
(* catalog before the first merge, new_books the incoming frame.           *)
(***************************************************************************)
TitlesOf(df) == {df[i].title : i \in 1..Len(df)}

\* the rows of df at the positions of the set keep, in the order of df
RECURSIVE RowsAt(_, _, _)
RowsAt(df, keep, i) ==
    IF i > Len(df) THEN <<>>
    ELSE (IF i \in keep THEN <<df[i]>> ELSE <<>>) \o RowsAt(df, keep, i + 1)

\* the incoming rows whose title is neither in existing nor earlier in incoming
NewRows(existing, incoming) ==
    RowsAt(incoming,
           {i \in 1..Len(incoming) :
               /\ incoming[i].title \notin TitlesOf(existing)
               /\ \A j \in 1..(i - 1) : incoming[j].title # incoming[i].title},
           1)

\* the rows of df whose title does not occur earlier in df
FirstOfEachTitle(df) ==
    RowsAt(df,
           {i \in 1..Len(df) : \A j \in 1..(i - 1) : df[j].title # df[i].title},
           1)

UniqueTitles(df) ==
    \A i, j \in 1..Len(df) : i # j => df[i].title # df[j].title

\* C6 as stated: the merge returns all rows of existing in their order, then
\* the incoming rows whose title is new; no title occurs twice in the result.
C6_MergeKeepsAllExisting ==
    pc = "merged" =>
        /\ books_df = prev_df \o NewRows(prev_df, new_books)
        /\ UniqueTitles(books_df)

\* C6 as amended: the merge returns the rows of existing whose title did not
\* occur earlier in existing, in their order, then the incoming rows whose
\* title is neither in existing nor earlier in incoming, in their order; no
\* title occurs twice and of the rows with one title the first is kept.  When
\* the titles of existing are unique, all of existing is returned.
C6_MergeFirstOccurrenceWins ==
    pc = "merged" =>
        /\ books_df = FirstOfEachTitle(prev_df) \o NewRows(prev_df, new_books)
        /\ UniqueTitles(books_df)
        /\ books_df = FirstOfEachTitle(prev_df \o new_books)
        /\ UniqueTitles(prev_df) =>
              books_df = prev_df \o NewRows(prev_df, new_books)

C6_Witness ==
    /\ pc = "merged"
    /\ Len(new_books) = 2
    /\ new_books[1].title \in TitlesOf(prev_df)
    /\ new_books[2].title \notin TitlesOf(prev_df)
    /\ new_books[1] \notin Range(prev_df)
    /\ Len(books_df) = Len(prev_df) + 1

\* C7: merging the same incoming frame a second time changes nothing: the
\* catalog after the second merge is the catalog after the first, same rows
\* in the same order.
C7_SecondMergeIsNoOp ==
    [][(pc = "merged" /\ pc' = "merged_again") => books_df' = books_df]_vars

C7_Witness ==
    /\ pc = "merged_again"
    /\ new_books # <<>>
    /\ books_df # prev_df
    /\ \E i \in 1..Len(new_books) : new_books[i].title \notin TitlesOf(prev_df)
    /\ \E i \in 1..Len(new_books) : new_books[i].title \in TitlesOf(prev_df)

(***************************************************************************)
(* Claims about the session, checked under Spec.                           *)
(***************************************************************************)
\* C8: within a session the catalog only grows: every row the catalog holds
\* before a step of the script is a row of the catalog after it; no handler
\* removes or replaces rows.  (The step that starts a run over is left out:
\* the catalog is compared once the run has loaded it.)
C8_CatalogOnlyGrows ==
    [][pc' # "start" => Range(books_df) \subseteq Range(books_df')]_vars

(***************************************************************************)
(* Claims about search_books, checked under SpecSearch.                    *)
(***************************************************************************)
\* the answer carries nothing to return: a fault, no docs key, or zero docs
NothingFound(resp) ==
    \/ resp.fault # "none"
    \/ ~resp.has_docs
    \/ resp.docs = <<>>

IsPrefix(s, t) == Len(s) <= Len(t) /\ \A k \in 1..Len(s) : s[k] = t[k]

\* C11: every call of search_books ends with a normal result: no exception
\* reaches the caller; on a fault of the transport, of the HTTP status or of
\* the JSON decoding, and on an answer without docs, the result is the empty
\* sequence; the result never has more than max_results items (it is the
\* first max_results docs of a good answer); and when the result is empty the
\* caller leaves its collection, the catalog and the indexes as they were.
C11_SearchEndsNormally ==
    [][LET call == search_call'
       IN  call.called =>
              /\ call.raised = "none"
              /\ exception' = "none"
              /\ pc' \in {"seeded", "searched"}
              /\ NothingFound(call.response) => call.returned = <<>>
              /\ Len(call.returned) <= call.max_results
              /\ IsPrefix(call.returned, call.response.docs)
              /\ ~NothingFound(call.response) =>
                     Len(call.returned) =
                         Min(Len(call.response.docs), call.max_results)
              /\ call.returned = <<>> =>
                     /\ books_df' = books_df
                     /\ initial_items' = initial_items
                     /\ unique_authors' = unique_authors
                     /\ unique_categories' = unique_categories]_vars

\* a call whose answer has more docs than asked for, cut to max_results
C11_Witness ==
    /\ search_call.called
    /\ Len(search_call.response.docs) > search_call.max_results
    /\ Len(search_call.returned) = search_call.max_results
    /\ pc = "searched"
    /\ Len(books_df) = MAX_API_RESULTS

(***************************************************************************)
(* Claims about the derived indexes, checked under Spec.                   *)
(***************************************************************************)
\* the sequence s lists the strings of the set S once each, in ascending order
IsSortedListOf(s, S) ==
    /\ Range(s) = S
    /\ \A i, j \in 1..Len(s) : i < j => str_less(s[i], s[j])

AuthorsOf(df) == {df[i].authors : i \in 1..Len(df)}

TagsOf(df) == UNION {tokenize(df[i].categories) : i \in 1..Len(df)}

\* the last handler changed the record set of the catalog
CatalogChanged == books_df # prev_df

AuthorIndexAgrees == IsSortedListOf(unique_authors, AuthorsOf(books_df))

\* C12: after every operation that changes the record set of the catalog, the
\* author index is the sorted list of the distinct authors of the catalog, and
\* the category index is the sorted list of the distinct tags of its records:
\* categories split on comma, each piece trimmed, empty pieces discarded.
C12_IndexesAgree ==
    CatalogChanged =>
        /\ AuthorIndexAgrees
        /\ IsSortedListOf(unique_categories, TagsOf(books_df))

(***************************************************************************)
(* Claims about the recommendation step of a session, checked under Spec.  *)
(***************************************************************************)
\* the run reached get_book_recommendations(selected_title, num_recommendations)
Invoked == num_recommendations > 0

\* C13: in every interaction, get_book_recommendations is invoked only with a
\* title that a row of the catalog it scores carries, on the By Title path
\* (with or without the automatic search and merge) and on the By Author then
\* Title path, so the lookup of the reference row does not fail and the call
\* returns; and a run that stopped because no title could be selected has not
\* reached the recommendation step.
C13_InvokedWithCatalogTitle ==
    /\ Invoked =>
          /\ selected_title \in TitlesOf(books_df)
          /\ selected_title \in TitlesOf(temp_df)
          /\ Len(temp_df) = Len(books_df)
          /\ exception = "none"
          /\ pc = "done"
    /\ exception # "IndexError"
    /\ pc = "stopped" =>
          /\ ~Invoked
          /\ selected_title = <<>>
          /\ temp_df = <<>>
          /\ recommendations = <<>>

\* By Title after the automatic search and merge: the title picked came with
\* the merged rows, the catalog at the start of the handler did not have it
C13_Witness ==
    /\ Invoked
    /\ pc = "done"
    /\ new_books # <<>>
    /\ selected_title \notin TitlesOf(prev_df)
    /\ selected_title \in TitlesOf(new_books)

====
